---- MODULE Spec2Model ----
(***************************************************************************)
(* FinSight-AI: the Portfolio store and analytics engine                   *)
(* (backend/portfolio.py), the Narrative Generator wrapper                 *)
(* (backend/llm.py), the request validation of the API layer               *)
(* (backend/main.py), the display label of the dashboard (app.py) and the  *)
(* News Gateway lookup (backend/data_sources.py).                          *)
(*                                                                         *)
(* Numbers.  Python floats are modelled by exact fixed-point values:       *)
(*   - a weight w is stored in hundredths (w = 0.5 is 50, 1.0 is 100);     *)
(*   - a percentage is stored in percent (60.0 is 60);                     *)
(*   - a daily return is stored in units of 1/RetScale;                    *)
(*   - a volatility v >= 0 is stored by its exact square num/den, or as    *)
(*     the NaN record; round(v, 3) is stored in thousandths.               *)
(* Text is a sequence of one-character strings, so that upper() and        *)
(* strip() are computed, not assumed.                                      *)
(***************************************************************************)
EXTENDS Integers, Sequences, FiniteSets, TLC

VARIABLES
    stocks,     \* Portfolio.stocks: insertion-ordered <<ticker, weight>> pairs
    upInfo,     \* upstream company profile per ticker (yf.Ticker(t).info)
    upHist,     \* upstream daily price history per ticker (yf.Ticker(t).history)
    news,       \* NEWSAPI_KEY of the process and what newsapi.org answers
    op,         \* name of the last operation called
    arg,        \* its inputs; up = FALSE: the generator fails on every call
    ret,        \* value returned by the last operation
    io          \* what the last operation did upstream: fetch counts and prompts

vars == <<stocks, upInfo, upHist, news, op, arg, ret, io>>

----------------------------------------------------------------------------
(* Bounds                                                                   *)

MaxHoldings == 3        \* largest Portfolio explored
MaxBars == 3            \* bars in a full price history

----------------------------------------------------------------------------
(* Text: str.upper() and str.strip()                                        *)

Space == " "

UpperChar(c) ==
    CASE c = "a" -> "A"
      [] c = "b" -> "B"
      [] c = "c" -> "C"
      [] OTHER   -> c

Upper(s) == [i \in 1..Len(s) |-> UpperChar(s[i])]

RECURSIVE LStrip(_)
LStrip(s) == IF s # <<>> /\ Head(s) = Space THEN LStrip(Tail(s)) ELSE s

RECURSIVE RStrip(_)
RStrip(s) ==
    IF s # <<>> /\ s[Len(s)] = Space THEN RStrip(SubSeq(s, 1, Len(s) - 1)) ELSE s

Strip(s) == RStrip(LStrip(s))

\* a normalisation that forgets upper()
NormalizeNoUpper(raw) == Strip(raw)

\* ticker = ticker.upper().strip()
Normalize(raw) == Strip(Upper(raw))

\* the raw ticker strings callers pass in
RawTickers ==
    { <<"a">>, <<"A">>, <<" ", "a", " ">>, <<"b">>, <<"c">>, <<" ">> }

----------------------------------------------------------------------------
(* The Portfolio store                                                      *)

DefaultWeight == 100                 \* weight: float = 1.0
Weights == {10, 50, DefaultWeight}

Keys(st) == { st[i][1] : i \in 1..Len(st) }

WeightOf(st, t) == LET i == CHOOSE j \in 1..Len(st) : st[j][1] = t IN st[i][2]

RECURSIVE DelKey(_, _)
DelKey(st, t) ==
    IF st = <<>> THEN <<>>
    ELSE IF Head(st)[1] = t THEN Tail(st)
    ELSE <<Head(st)>> \o DelKey(Tail(st), t)

\* add_stock: the store after the call, and the status string
AddStockStore(st, raw, w) ==
    LET ticker == Normalize(raw) IN
    IF ticker # <<>> /\ ticker \notin Keys(st)
    THEN Append(st, <<ticker, w>>)
    ELSE st

AddStockStatus(st, raw, w) ==
    LET ticker == Normalize(raw) IN
    IF ticker # <<>> /\ ticker \notin Keys(st)
    THEN [kind |-> "status", ticker |-> ticker, text |-> "added to portfolio."]
    ELSE [kind |-> "status", ticker |-> ticker, text |-> "already exists."]

\* remove_stock
RemoveStockStore(st, raw) ==
    LET ticker == Normalize(raw) IN
    IF ticker \in Keys(st) THEN DelKey(st, ticker) ELSE st

RemoveStockStatus(st, raw) ==
    LET ticker == Normalize(raw) IN
    IF ticker \in Keys(st)
    THEN [kind |-> "status", ticker |-> ticker, text |-> "removed from portfolio."]
    ELSE [kind |-> "status", ticker |-> ticker, text |-> "not found in portfolio."]

----------------------------------------------------------------------------
(* Upstream data and the two fetchers                                       *)

Raises == [raises |-> TRUE]

\* an info mapping: the keys it has (longName, sector, marketCap) and
\* their values; marketCap is in billions
Info(keys, name, s, cap) ==
    [raises |-> FALSE, keys |-> keys, longName |-> name, sector |-> s, marketCap |-> cap]

\* a profile that carries a sector, and one that does not
Profile(s) == Info({"longName", "sector", "marketCap"}, "Company", s, 10)
NoSectorProfile == Info({"longName"}, "Company", "-", 0)

\* _fetch_info: the info mapping, {} when the provider raises
EmptyInfo == Info({}, "-", "-", 0)
FetchInfo(info, t) == IF info[t].raises THEN EmptyInfo ELSE info[t]

\* info.get("sector", "Unknown")
SectorOf(i) == IF "sector" \in i.keys THEN i.sector ELSE "Unknown"
\* info.get("longName", "N/A")
NameOf(i) == IF "longName" \in i.keys THEN i.longName ELSE "N/A"
\* info.get("marketCap", 0) or 0
MarketCapOf(i) == IF "marketCap" \in i.keys THEN i.marketCap ELSE 0

\* a price frame: rows of <<date, close>>, and whether it has a Close column
Frame(hasClose, bars) == [raises |-> FALSE, hasClose |-> hasClose, bars |-> bars]
EmptyFrame == Frame(FALSE, <<>>)

\* _fetch_history: the frame, pd.DataFrame() when the provider raises
FetchHistory(hist, t) == IF hist[t].raises THEN EmptyFrame ELSE hist[t]

----------------------------------------------------------------------------
(* Analytics: sector_breakdown                                              *)

\* sector_weights[sector] = sector_weights.get(sector, 0.0) + float(w);
\* a dict keeps its keys in order of first insertion
Accumulate(acc, sector, w) ==
    IF \E i \in 1..Len(acc) : acc[i][1] = sector
    THEN [i \in 1..Len(acc) |->
            IF acc[i][1] = sector THEN <<sector, acc[i][2] + w>> ELSE acc[i]]
    ELSE Append(acc, <<sector, w>>)

RECURSIVE SectorWeights(_, _, _)
SectorWeights(st, info, acc) ==
    IF st = <<>> THEN acc
    ELSE SectorWeights(Tail(st), info,
            Accumulate(acc, SectorOf(FetchInfo(info, Head(st)[1])), Head(st)[2]))

\* pct * 100.0, for a weight held in hundredths
ToPercent(w) == (w * 100) \div 100

\* a descending sort that puts the later of two equal entries first
RECURSIVE InsertDescUnstable(_, _)
InsertDescUnstable(sorted, x) ==
    IF sorted = <<>> THEN <<x>>
    ELSE IF Head(sorted)[2] > x[2]
         THEN <<Head(sorted)>> \o InsertDescUnstable(Tail(sorted), x)
    ELSE <<x>> \o sorted

\* list.sort(key=lambda x: x[1], reverse=True): stable, descending
RECURSIVE InsertDesc(_, _)
InsertDesc(sorted, x) ==
    IF sorted = <<>> THEN <<x>>
    ELSE IF Head(sorted)[2] >= x[2] THEN <<Head(sorted)>> \o InsertDesc(Tail(sorted), x)
    ELSE <<x>> \o sorted

RECURSIVE SortDesc(_, _)
SortDesc(todo, sorted) ==
    IF todo = <<>> THEN sorted
    ELSE SortDesc(Tail(todo), InsertDesc(sorted, Head(todo)))

sector_breakdown(st, info) ==
    IF st = <<>> THEN <<>>
    ELSE LET sw == SectorWeights(st, info, <<>>)
             breakdown == [i \in 1..Len(sw) |-> <<sw[i][1], ToPercent(sw[i][2])>>]
         IN SortDesc(breakdown, <<>>)

----------------------------------------------------------------------------
(* Numbers: volatilities                                                    *)

NaN == [nan |-> TRUE, num |-> 0, den |-> 1]

RECURSIVE Gcd(_, _)
Gcd(a, b) == IF b = 0 THEN a ELSE Gcd(b, a % b)

\* the volatility whose square is num/den, in lowest terms
Vol(num, den) ==
    LET g == Gcd(num, den) IN
    IF num = 0 THEN [nan |-> FALSE, num |-> 0, den |-> 1]
    ELSE [nan |-> FALSE, num |-> num \div g, den |-> den \div g]

IsNaN(v) == v.nan

\* floor(num * f1 * f2 * ... / den) without leaving 32 bits
RECURSIVE Product(_)
Product(fs) == IF fs = <<>> THEN 1 ELSE Head(fs) * Product(Tail(fs))

RECURSIVE ScaleFloor(_, _, _)
ScaleFloor(num, den, fs) ==
    IF fs = <<>> THEN num \div den
    ELSE (num \div den) * Product(fs)
         + ScaleFloor((num % den) * Head(fs), den, Tail(fs))

\* the volatility c/100
Hundredths(c) == Vol(c * c, 10000)

\* v >= c/100 and v > c/100, both FALSE for NaN as in IEEE arithmetic
Ge(v, c) == ~v.nan /\ ScaleFloor(v.num, v.den, <<100, 100>>) >= c * c
Gt(v, c) == Ge(v, c) /\ v # Hundredths(c)

RECURSIVE ISqrtIn(_, _, _)
ISqrtIn(x, lo, hi) ==
    IF lo = hi THEN lo
    ELSE LET mid == (lo + hi + 1) \div 2 IN
         IF mid * mid <= x THEN ISqrtIn(x, mid, hi) ELSE ISqrtIn(x, lo, mid - 1)

ISqrt(x) == ISqrtIn(x, 0, 46340)

\* round(v, 3), in thousandths: floor(1000 v + 1/2)
Round3(v) == (ISqrt(ScaleFloor(v.num, v.den, <<200, 200, 100>>)) + 1) \div 2

----------------------------------------------------------------------------
(* Analytics: ticker_volatilities and portfolio_volatility                  *)

\* returns are held in units of 1/RetScale; the closes of the price
\* histories below are 4 and 5, for which the division is exact
RetScale == 4 * 5
TradingDays == 252

\* Close.pct_change(): the return of row i >= 2 (row 1 has none)
PctChange(bars, i) == (RetScale * (bars[i][2] - bars[i - 1][2])) \div bars[i - 1][2]

\* the rows left by pct_change().dropna(): <<date, return>>
ReturnRows(bars) ==
    IF Len(bars) < 2 THEN <<>>
    ELSE [i \in 1..(Len(bars) - 1) |-> <<bars[i + 1][1], PctChange(bars, i + 1)>>]

RECURSIVE SumSeq(_)
SumSeq(s) == IF s = <<>> THEN 0 ELSE Head(s) + SumSeq(Tail(s))

\* sample standard deviation (ddof = 1) of xs / scale, times sqrt(252):
\* NaN for fewer than two values
AnnualizedStd(xs, scale) ==
    LET n == Len(xs)
        sum == SumSeq(xs)
        sumSq == SumSeq([i \in 1..n |-> xs[i] * xs[i]])
        g == Gcd(n * sumSq - sum * sum, scale * scale * n * (n - 1))
        num == (n * sumSq - sum * sum) \div g
        den == (scale * scale * n * (n - 1)) \div g
        h == Gcd(TradingDays, den)
    IN IF n < 2 THEN NaN
       ELSE IF num = 0 THEN Vol(0, 1)
       ELSE Vol((TradingDays \div h) * num, den \div h)

\* one ticker of ticker_volatilities
TickerVol(hist, t) ==
    LET h == FetchHistory(hist, t) IN
    IF h.bars = <<>> \/ ~h.hasClose THEN NaN
    ELSE LET rows == ReturnRows(h.bars) IN
         IF rows = <<>> THEN NaN
         ELSE AnnualizedStd([i \in 1..Len(rows) |-> rows[i][2]], RetScale)

\* the mapping ticker -> volatility, in store order
ticker_volatilities(st, hist) ==
    [i \in 1..Len(st) |-> <<st[i][1], TickerVol(hist, st[i][1])>>]

\* portfolio_volatility
\* one column of the return table: the ticker, its dates and its returns
Column(t, rows) ==
    [ticker |-> t,
     dates  |-> { rows[i][1] : i \in 1..Len(rows) },
     val    |-> [d \in { rows[i][1] : i \in 1..Len(rows) } |->
                    LET i == CHOOSE j \in 1..Len(rows) : rows[j][1] = d IN rows[i][2]]]

\* the loop that builds rets: a holding with an empty frame or no Close
\* column is skipped, every other holding appends its return rows
RECURSIVE ReturnColumns(_, _)
ReturnColumns(st, hist) ==
    IF st = <<>> THEN <<>>
    ELSE LET t == Head(st)[1]
             h == FetchHistory(hist, t)
         IN IF h.bars = <<>> \/ ~h.hasClose
            THEN ReturnColumns(Tail(st), hist)
            ELSE <<Column(t, ReturnRows(h.bars))>> \o ReturnColumns(Tail(st), hist)

\* pd.concat(rets, axis=1): outer join, the union of the dates
ConcatIndex(cols) == UNION { cols[i].dates : i \in 1..Len(cols) }

\* a table that keeps the rows with missing cells
AlignedDatesOuter(cols) == ConcatIndex(cols)

\* .dropna(): the dates on which no column is missing
AlignedDates(cols) ==
    { d \in ConcatIndex(cols) : \A i \in 1..Len(cols) : d \in cols[i].dates }

\* one cell of the table; sum(axis=1) skips a missing cell
Cell(col, d) == IF d \in col.dates THEN col.val[d] ELSE 0

\* the dates of a set, ascending
RECURSIVE SortedDates(_)
SortedDates(ds) ==
    IF ds = {} THEN <<>>
    ELSE LET m == CHOOSE d \in ds : \A e \in ds : d <= e
         IN <<m>> \o SortedDates(ds \ {m})

portfolio_volatility(st, hist) ==
    IF st = <<>> THEN NaN
    ELSE LET rets == ReturnColumns(st, hist) IN
    IF rets = <<>> THEN NaN
    ELSE LET R == SortedDates(AlignedDates(rets)) IN
    IF R = <<>> THEN NaN
    ELSE LET \* weights = pd.Series(self.stocks, index=R.columns)
             weights == [i \in 1..Len(rets) |-> WeightOf(st, rets[i].ticker)]
             total == SumSeq(weights)
             \* port_ret = R.mul(weights / total, axis=1).sum(axis=1),
             \* held in units of 1 / (RetScale * total)
             port_ret == [k \in 1..Len(R) |->
                            SumSeq([i \in 1..Len(rets) |-> weights[i] * Cell(rets[i], R[k])])]
         IN IF total = 0
            \* the weights explored sum to 0 only when all are 0: 0/0 weights
            \* are NaN, skipped by sum(), and every portfolio return is 0.0
            THEN AnnualizedStd([k \in 1..Len(R) |-> 0], 1)
            ELSE AnnualizedStd(port_ret, RetScale * total)

----------------------------------------------------------------------------
(* The Narrative Generator wrapper (backend/llm.py)                         *)

\* the text the model generates for a prompt, the fixed fallback of
\* ai_summary, and the local message of an empty Portfolio
Generated(prompt) == [kind |-> "text", source |-> "model", text |-> prompt]
Unavailable ==
    [kind |-> "text", source |-> "fallback",
     text |-> "Portfolio insight unavailable: AI service not configured. Please set GEMINI_API_KEY."]
EmptyMessage ==
    [kind |-> "text", source |-> "local",
     text |-> "Portfolio is empty. Add some tickers first."]

\* an exception leaving a call
Raised == [kind |-> "raised"]

\* an ai_summary without its try/except
ai_summary_unguarded(prompt, up) == IF up THEN Generated(prompt) ELSE Raised

\* ai_summary: try generate_content, except Exception return the fallback
ai_summary(prompt, up) == IF up THEN Generated(prompt) ELSE Unavailable

BlurbPrompt(t) == [what |-> "blurb", ticker |-> t]

----------------------------------------------------------------------------
(* Snapshots: get_portfolio_data                                            *)

HoldingData(t, info, up) ==
    LET i == FetchInfo(info, t) IN
    [name |-> NameOf(i), sector |-> SectorOf(i), marketCap |-> MarketCapOf(i),
     forwardPE |-> "None",       \* no profile of the model carries forwardPE
     summary |-> ai_summary(BlurbPrompt(t), up)]

\* the mapping ticker -> fields, in store order; an exception of the blurb
\* call leaves the loop
get_portfolio_data(st, info, up) ==
    LET data == [i \in 1..Len(st) |-> <<st[i][1], HoldingData(st[i][1], info, up)>>] IN
    IF \E i \in 1..Len(st) : data[i][2].summary = Raised THEN Raised
    ELSE [kind |-> "data", val |-> data]

----------------------------------------------------------------------------
(* Risk classification and flags                                            *)

ConcentrationPct == 60       \* top_sector[1] >= 60.0
HighVol == 40                \* v >= 0.40

\* top_sector = sectors[0] if sectors else ("Unknown", 0)
TopSector(sectors) == IF sectors # <<>> THEN sectors[1] ELSE <<"Unknown", 0>>

\* a flag that needs more than 60
ConcentrationFlagStrict(top) == top[2] > ConcentrationPct

ConcentrationFlag(top) == top[2] >= ConcentrationPct

\* the selection written as "not below 0.40": NaN passes
RECURSIVE HighVolNamesNotBelow(_)
HighVolNamesNotBelow(vols) ==
    IF vols = <<>> THEN <<>>
    ELSE IF IsNaN(Head(vols)[2]) \/ Ge(Head(vols)[2], HighVol)
         THEN <<Head(vols)[1]>> \o HighVolNamesNotBelow(Tail(vols))
         ELSE HighVolNamesNotBelow(Tail(vols))

\* [t for t, v in vols.items() if isinstance(v, float) and v >= 0.40]
RECURSIVE HighVolNames(_)
HighVolNames(vols) ==
    IF vols = <<>> THEN <<>>
    ELSE IF Ge(Head(vols)[2], HighVol)
         THEN <<Head(vols)[1]>> \o HighVolNames(Tail(vols))
         ELSE HighVolNames(Tail(vols))

\* the diversification score of ai_portfolio_insight
DiversificationScore(sectors) ==
    IF ConcentrationFlag(TopSector(sectors)) THEN "Poor"
    ELSE IF Len(sectors) < 3 THEN "Moderate"
    ELSE "Good"

Min(a, b) == IF a <= b THEN a ELSE b

\* a classification in which "Poor" adds 20 but leaves the level alone
RiskClassificationLevelKept(pvol, diversification) ==
    IF IsNaN(pvol) THEN [level |-> "Unknown", numeric |-> FALSE, score |-> 0]
    ELSE LET base == IF Gt(pvol, 40) THEN [level |-> "High", score |-> 80]
                     ELSE IF Gt(pvol, 20) THEN [level |-> "Moderate", score |-> 50]
                     ELSE [level |-> "Low", score |-> 20]
         IN IF diversification = "Poor"
            THEN [level |-> base.level, numeric |-> TRUE, score |-> Min(100, base.score + 20)]
            ELSE IF diversification = "Moderate"
            THEN [level |-> base.level, numeric |-> TRUE, score |-> Min(100, base.score + 10)]
            ELSE [level |-> base.level, numeric |-> TRUE, score |-> base.score]

\* risk level and score of ai_portfolio_insight; the score "N/A" is the
\* record with numeric = FALSE
RiskClassification(pvol, diversification) ==
    IF IsNaN(pvol) THEN [level |-> "Unknown", numeric |-> FALSE, score |-> 0]
    ELSE LET base == IF Gt(pvol, 40) THEN [level |-> "High", score |-> 80]
                     ELSE IF Gt(pvol, 20) THEN [level |-> "Moderate", score |-> 50]
                     ELSE [level |-> "Low", score |-> 20]
         IN IF diversification = "Poor"
            THEN [level |-> "High", numeric |-> TRUE, score |-> Min(100, base.score + 20)]
            ELSE IF diversification = "Moderate"
            THEN [level |-> base.level, numeric |-> TRUE, score |-> Min(100, base.score + 10)]
            ELSE [level |-> base.level, numeric |-> TRUE, score |-> base.score]

\* a display label that needs more than 60 for "Poor"
compute_diversification_text_strict(breakdown) ==
    IF breakdown = <<>> THEN "Unknown"
    ELSE IF breakdown[1][2] > 60 THEN "Poor"
    ELSE IF Len(breakdown) < 3 THEN "Moderate"
    ELSE "Good"

\* compute_diversification_text of the dashboard (app.py)
compute_diversification_text(breakdown) ==
    IF breakdown = <<>> THEN "Unknown"
    ELSE IF breakdown[1][2] >= 60 THEN "Poor"
    ELSE IF Len(breakdown) < 3 THEN "Moderate"
    ELSE "Good"

\* round(pvol, 3) if pvol == pvol else <absent>
RoundedOrAbsent(pvol) ==
    IF IsNaN(pvol) THEN [present |-> FALSE, milli |-> 0]
    ELSE [present |-> TRUE, milli |-> Round3(pvol)]

----------------------------------------------------------------------------
(* Insight, risk snapshot and report                                        *)

Audiences == {"Beginner"}       \* audience: str = "Beginner"

\* the holdings list of the prompt
Basics(data) ==
    [i \in 1..Len(data) |->
        [ticker |-> data[i][1], name |-> data[i][2].name,
         sector |-> data[i][2].sector, mcap |-> data[i][2].marketCap]]

\* the prompt of ai_portfolio_insight, field by field
InsightPrompt(st, data, sectors, vols, pvol, audience) ==
    LET top_sector == TopSector(sectors)
        diversification_score == DiversificationScore(sectors)
        risk == RiskClassification(pvol, diversification_score)
    IN [what |-> "insight",
        tickers |-> [i \in 1..Len(st) |-> st[i][1]],
        weights |-> st,
        holdings |-> Basics(data),
        sectors |-> sectors,
        volatility |-> RoundedOrAbsent(pvol),
        diversification |-> diversification_score,
        risk_level |-> risk.level,
        risk_score |-> [numeric |-> risk.numeric, score |-> risk.score],
        concentration_flag |-> ConcentrationFlag(top_sector),
        top_sector |-> top_sector,
        high_vol_names |-> HighVolNames(vols),
        audience |-> audience]

ai_portfolio_insight(st, info, hist, up, audience) ==
    IF st = <<>> THEN EmptyMessage
    ELSE LET data == get_portfolio_data(st, info, up) IN
         IF data = Raised THEN Raised
         ELSE ai_summary(InsightPrompt(st, data.val, sector_breakdown(st, info),
                                       ticker_volatilities(st, hist),
                                       portfolio_volatility(st, hist), audience), up)

ErrorMarker == [kind |-> "error", error |-> "Portfolio is empty."]

\* an analyze_risk without the guard on the empty Portfolio
analyze_risk_unguarded(st, info, hist) ==
    LET vols == ticker_volatilities(st, hist)
        pvol == portfolio_volatility(st, hist)
        sectors == sector_breakdown(st, info)
        top_sector == TopSector(sectors)
    IN [kind |-> "risk",
        portfolio_volatility |-> RoundedOrAbsent(pvol),
        flagged |-> ConcentrationFlag(top_sector),
        top_sector |-> top_sector,
        high_vol_stocks |-> HighVolNames(vols),
        ticker_volatilities |-> vols]

analyze_risk(st, info, hist) ==
    IF st = <<>> THEN ErrorMarker
    ELSE LET vols == ticker_volatilities(st, hist)
             pvol == portfolio_volatility(st, hist)
             sectors == sector_breakdown(st, info)
             top_sector == TopSector(sectors)
         IN [kind |-> "risk",
             portfolio_volatility |-> RoundedOrAbsent(pvol),
             flagged |-> ConcentrationFlag(top_sector),
             top_sector |-> top_sector,
             high_vol_stocks |-> HighVolNames(vols),
             ticker_volatilities |-> vols]

generate_report(st, info, hist, up, audience) ==
    IF st = <<>> THEN ErrorMarker
    ELSE LET holdings == get_portfolio_data(st, info, up)
             insight == ai_portfolio_insight(st, info, hist, up, audience)
         IN IF holdings = Raised \/ insight = Raised THEN Raised
            ELSE [kind |-> "report",
                  holdings |-> holdings.val,
                  sectors |-> sector_breakdown(st, info),
                  portfolio_volatility |-> portfolio_volatility(st, hist),
                  ai_summary |-> insight]

----------------------------------------------------------------------------
(* What each operation asks of the providers: the number of profile and    *)
(* price fetches, and the prompts sent to the generator, in order          *)

Io(i, h, ps) == [info |-> i, hist |-> h, prompts |-> ps]
NoIo == Io(0, 0, <<>>)
IoPlus(a, b) == Io(a.info + b.info, a.hist + b.hist, a.prompts \o b.prompts)

\* one _fetch_info per holding
sector_breakdown_io(st) == Io(Len(st), 0, <<>>)
\* one _fetch_history per holding
ticker_volatilities_io(st) == Io(0, Len(st), <<>>)
portfolio_volatility_io(st) == Io(0, Len(st), <<>>)
\* one _fetch_info and one ai_summary per holding
get_portfolio_data_io(st) == Io(Len(st), 0, [i \in 1..Len(st) |-> BlurbPrompt(st[i][1])])

\* the prompt is the one ai_portfolio_insight builds: the text the model
\* generates for it, or built again when the generator is down
ai_portfolio_insight_io(st, info, hist, up, audience, answer) ==
    IF st = <<>> THEN NoIo
    ELSE LET gathered == IoPlus(IoPlus(get_portfolio_data_io(st), sector_breakdown_io(st)),
                                IoPlus(ticker_volatilities_io(st), portfolio_volatility_io(st)))
         IN IF answer = Raised THEN get_portfolio_data_io(st)
            ELSE IF answer.source = "model" THEN IoPlus(gathered, Io(0, 0, <<answer.text>>))
            ELSE IoPlus(gathered,
                        Io(0, 0, <<InsightPrompt(st, get_portfolio_data(st, info, up).val,
                                                 sector_breakdown(st, info),
                                                 ticker_volatilities(st, hist),
                                                 portfolio_volatility(st, hist), audience)>>))

analyze_risk_io(st) ==
    IF st = <<>> THEN NoIo
    ELSE IoPlus(IoPlus(ticker_volatilities_io(st), portfolio_volatility_io(st)),
                sector_breakdown_io(st))

generate_report_io(st, info, hist, up, audience, report) ==
    IF st = <<>> THEN NoIo
    ELSE IF report = Raised THEN get_portfolio_data_io(st)
    ELSE IoPlus(IoPlus(get_portfolio_data_io(st), sector_breakdown_io(st)),
                IoPlus(portfolio_volatility_io(st),
                       ai_portfolio_insight_io(st, info, hist, up, audience,
                                               report.ai_summary)))

----------------------------------------------------------------------------
(* The News Gateway (backend/data_sources.py)                               *)

MaxArticles == 2        \* most articles in an answer of newsapi.org

\* requests.utils.quote on the characters of the queries: a space is
\* percent-encoded, letters are kept
QuoteChar(c) == IF c = Space THEN <<"%", "2", "0">> ELSE <<c>>

RECURSIVE Quote(_)
Quote(s) == IF s = <<>> THEN <<>> ELSE QuoteChar(Head(s)) \o Quote(Tail(s))

\* key: NEWSAPI_KEY is set and not empty; reply: what requests.get meets
News(key, reply) == [key |-> key, reply |-> reply]
\* requests.get raises (connection error, timeout)
NetworkError == [kind |-> "network_error"]
Reply(status, body) == [kind |-> "response", status |-> status, body |-> body]
\* a body r.json() cannot decode
NotJson == [json |-> FALSE, hasArticles |-> FALSE, articles |-> <<>>]
\* a JSON object, with or without the "articles" member
Json(hasArticles, articles) == [json |-> TRUE, hasArticles |-> hasArticles, articles |-> articles]

NoNews == News(FALSE, NetworkError)

None == "None"
\* dict.get(k) on a dict modelled as a function
Get(d, k) == IF k \in DOMAIN d THEN d[k] ELSE None

\* a.get("source", {}).get("name")
SourceName(a) == IF "source" \in DOMAIN a THEN Get(a["source"], "name") ELSE None

\* the compact representation of one article
Compact(a) ==
    [title |-> Get(a, "title"),
     source |-> SourceName(a),
     publishedAt |-> Get(a, "publishedAt"),
     url |-> Get(a, "url"),
     description |-> Get(a, "description")]

\* Response.raise_for_status raises on 4xx and 5xx
RaiseForStatus(status) == status >= 400 /\ status < 600

NewsRequest(query, page_size) == [q |-> Quote(query), pageSize |-> page_size]

\* get_latest_news: the list returned, or Raised when an exception leaves
\* the function
get_latest_news(query, page_size, env) ==
    IF ~env.key THEN [kind |-> "news", val |-> <<>>]
    ELSE IF env.reply.kind = "network_error" THEN Raised
    ELSE IF RaiseForStatus(env.reply.status) THEN Raised
    ELSE IF ~env.reply.body.json THEN Raised
    ELSE LET articles == IF env.reply.body.hasArticles THEN env.reply.body.articles
                         ELSE <<>>
         IN [kind |-> "news", val |-> [i \in 1..Len(articles) |-> Compact(articles[i])]]

\* the requests sent to newsapi.org
get_latest_news_io(query, page_size, env) ==
    [requests |-> IF env.key THEN <<NewsRequest(query, page_size)>> ELSE <<>>]

----------------------------------------------------------------------------
(* The providers' data                                                      *)

A == <<"A">>
B == <<"B">>
C == <<"C">>

\* n daily bars from date first; closes alternate between lo and hi
Bars(first, n, odd, even) ==
    [i \in 1..n |-> <<first + i - 1, IF i % 2 = 1 THEN odd ELSE even>>]

FullHistory(odd, even) == Frame(TRUE, Bars(1, MaxBars, odd, even))
\* a frame without a Close column
NoCloseHistory == Frame(FALSE, Bars(1, MaxBars, 4, 5))
\* a single bar: no return can be formed
OneBarHistory == Frame(TRUE, Bars(1, 1, 4, 4))
\* bars on later dates only: no date in common with a full history
LateHistory == Frame(TRUE, Bars(MaxBars + 1, MaxBars, 5, 4))
\* bars starting one day later: MaxBars - 2 return dates in common
ShiftedHistory == Frame(TRUE, Bars(2, MaxBars, 5, 4))

DefaultInfo == (A :> Profile("Technology")) @@ (B :> Profile("Healthcare"))
               @@ (C :> Profile("Energy"))
DefaultHist == (A :> FullHistory(4, 5)) @@ (B :> FullHistory(5, 4))
               @@ (C :> FullHistory(4, 4))

InfoChoices ==
    { (A :> Profile("Technology")) @@ (B :> b) @@ (C :> c) :
        b \in {Profile("Technology"), Profile("Healthcare"), Raises},
        c \in {Profile("Energy"), NoSectorProfile} }

HistChoices ==
    { (A :> FullHistory(4, 5)) @@ (B :> b) @@ (C :> c) :
        b \in {FullHistory(5, 4), Raises, EmptyFrame, NoCloseHistory, OneBarHistory,
               LateHistory, ShiftedHistory},
        c \in {FullHistory(4, 4)} }

\* the provider states explored: the profiles vary or the histories vary
Providers ==
    { <<i, DefaultHist>> : i \in InfoChoices } \cup { <<DefaultInfo, h>> : h \in HistChoices }

----------------------------------------------------------------------------
(* The session: one Portfolio, the operations called on it                  *)

NoArg == [none |-> TRUE]
NoRet == [kind |-> "none"]

Init ==
    /\ stocks = <<>>
    /\ \E p \in Providers : upInfo = p[1] /\ upHist = p[2]
    /\ news = NoNews
    /\ op = "init"
    /\ arg = NoArg
    /\ ret = NoRet
    /\ io = NoIo

AddStock(raw, w) ==
    /\ Len(AddStockStore(stocks, raw, w)) <= MaxHoldings
    /\ stocks' = AddStockStore(stocks, raw, w)
    /\ op' = "add_stock"
    /\ arg' = [ticker |-> raw]
    /\ ret' = AddStockStatus(stocks, raw, w)
    /\ io' = NoIo
    /\ UNCHANGED <<upInfo, upHist, news>>

RemoveStock(raw) ==
    /\ stocks' = RemoveStockStore(stocks, raw)
    /\ op' = "remove_stock"
    /\ arg' = [ticker |-> raw]
    /\ ret' = RemoveStockStatus(stocks, raw)
    /\ io' = NoIo
    /\ UNCHANGED <<upInfo, upHist, news>>

SectorBreakdown ==
    /\ op' = "sector_breakdown"
    /\ arg' = NoArg
    /\ ret' = [kind |-> "sectors", val |-> sector_breakdown(stocks, upInfo)]
    /\ io' = sector_breakdown_io(stocks)
    /\ UNCHANGED <<stocks, upInfo, upHist, news>>

TickerVolatilities ==
    /\ op' = "ticker_volatilities"
    /\ arg' = NoArg
    /\ ret' = [kind |-> "vols", val |-> ticker_volatilities(stocks, upHist)]
    /\ io' = ticker_volatilities_io(stocks)
    /\ UNCHANGED <<stocks, upInfo, upHist, news>>

PortfolioVolatility ==
    /\ op' = "portfolio_volatility"
    /\ arg' = NoArg
    /\ ret' = [kind |-> "vol", val |-> portfolio_volatility(stocks, upHist)]
    /\ io' = IF stocks = <<>> THEN NoIo ELSE portfolio_volatility_io(stocks)
    /\ UNCHANGED <<stocks, upInfo, upHist, news>>

AnalyzeRisk ==
    /\ op' = "analyze_risk"
    /\ arg' = NoArg
    /\ ret' = analyze_risk(stocks, upInfo, upHist)
    /\ io' = analyze_risk_io(stocks)
    /\ UNCHANGED <<stocks, upInfo, upHist, news>>

AiPortfolioInsight(audience, up) ==
    /\ op' = "ai_portfolio_insight"
    /\ arg' = [audience |-> audience, up |-> up]
    /\ ret' = ai_portfolio_insight(stocks, upInfo, upHist, up, audience)
    /\ io' = ai_portfolio_insight_io(stocks, upInfo, upHist, up, audience, ret')
    /\ UNCHANGED <<stocks, upInfo, upHist, news>>

GenerateReport(audience, up) ==
    /\ op' = "generate_report"
    /\ arg' = [audience |-> audience, up |-> up]
    /\ ret' = generate_report(stocks, upInfo, upHist, up, audience)
    /\ io' = generate_report_io(stocks, upInfo, upHist, up, audience, ret')
    /\ UNCHANGED <<stocks, upInfo, upHist, news>>

\* the dashboard's diversification KPI (app.py): shown when there are positions
DisplayDiversification ==
    /\ stocks # <<>>
    /\ op' = "display_diversification"
    /\ arg' = NoArg
    /\ ret' = [kind |-> "label",
               val |-> compute_diversification_text(sector_breakdown(stocks, upInfo))]
    /\ io' = sector_breakdown_io(stocks)
    /\ UNCHANGED <<stocks, upInfo, upHist, news>>

Next ==
    \/ \E raw \in RawTickers, w \in Weights : AddStock(raw, w)
    \/ \E raw \in RawTickers : RemoveStock(raw)
    \/ SectorBreakdown
    \/ TickerVolatilities
    \/ PortfolioVolatility
    \/ AnalyzeRisk
    \/ \E audience \in Audiences, up \in BOOLEAN : AiPortfolioInsight(audience, up)
    \/ \E audience \in Audiences, up \in BOOLEAN : GenerateReport(audience, up)
    \/ DisplayDiversification

Spec == Init /\ [][Next]_vars

----------------------------------------------------------------------------
(* The API layer (backend/main.py): each request builds its own Portfolio   *)

MaxRequest == 2         \* most entries in a request's portfolio mapping

ReqWeights == {0, 50, 100}
ReqTickers == { <<"a">>, <<"A">>, <<"b">> }

\* the request mappings: raw ticker -> weight, keys distinct
Requests ==
    UNION { { r \in [1..n -> ReqTickers \X ReqWeights] :
                \A i, j \in 1..n : i # j => r[i][1] # r[j][1] } : n \in 0..MaxRequest }

Abs(x) == IF x < 0 THEN -x ELSE x

\* PortfolioRequest.validate_weights: "ok" or the ValueError raised
validate_weights(v) ==
    LET total == SumSeq([i \in 1..Len(v) |-> v[i][2]]) IN
    IF total <= 0 THEN "Portfolio weights must be positive"
    \* abs(total - 1.0) > 1e-6, with total in hundredths
    ELSE IF Abs(total - 100) * 10000 > 1 THEN "Portfolio weights must sum to 1.0"
    ELSE "ok"

\* p = Portfolio(); for ticker, weight in request.portfolio.items(): p.add_stock(...)
RECURSIVE BuildPortfolio(_, _)
BuildPortfolio(st, items) ==
    IF items = <<>> THEN st
    ELSE BuildPortfolio(AddStockStore(st, Head(items)[1], Head(items)[2]), Tail(items))

Rejected(msg) == [kind |-> "http", status |-> 422, detail |-> msg]
Failed(msg) == [kind |-> "http", status |-> 500, detail |-> msg]
Ok(body) == [kind |-> "http", status |-> 200, body |-> body]

\* an endpoint: validation, then the Portfolio, then the engine call inside
\* try/except
Endpoint(name, req, answer, asked, failure) ==
    /\ op' = name
    /\ arg' = [portfolio |-> req]
    /\ IF validate_weights(req) # "ok"
       THEN /\ stocks' = <<>>
            /\ ret' = Rejected(validate_weights(req))
            /\ io' = NoIo
       ELSE /\ stocks' = BuildPortfolio(<<>>, req)
            /\ ret' = IF answer = Raised THEN Failed(failure) ELSE Ok(answer)
            /\ io' = asked
    /\ UNCHANGED <<upInfo, upHist, news>>

get_insights(req, up) ==
    LET p == BuildPortfolio(<<>>, req)
        insights == ai_portfolio_insight(p, upInfo, upHist, up, "Beginner")
    IN Endpoint("/portfolio-insight", req, insights,
                ai_portfolio_insight_io(p, upInfo, upHist, up, "Beginner", insights),
                "Failed to generate portfolio insights")

risk_analysis(req) ==
    LET p == BuildPortfolio(<<>>, req) IN
    Endpoint("/risk-analysis", req, analyze_risk(p, upInfo, upHist), analyze_risk_io(p),
             "Risk analysis failed")

report_endpoint(req, up) ==
    LET p == BuildPortfolio(<<>>, req)
        report == generate_report(p, upInfo, upHist, up, "Beginner")
    IN Endpoint("/report", req, report,
                generate_report_io(p, upInfo, upHist, up, "Beginner", report),
                "Report generation failed")

ApiOps == {"/portfolio-insight", "/risk-analysis", "/report"}

InitApi ==
    /\ stocks = <<>>
    /\ upInfo = DefaultInfo
    /\ upHist = DefaultHist
    /\ news = NoNews
    /\ op = "init"
    /\ arg = NoArg
    /\ ret = NoRet
    /\ io = NoIo

NextApi ==
    \/ \E req \in Requests, up \in BOOLEAN : get_insights(req, up)
    \/ \E req \in Requests : risk_analysis(req)
    \/ \E req \in Requests, up \in BOOLEAN : report_endpoint(req, up)

SpecApi == InitApi /\ [][NextApi]_vars

----------------------------------------------------------------------------
(* The classification taken alone: the two diversification labels and the   *)
(* risk level and score, applied to sampled inputs                          *)

MaxSectors == 3         \* longest sector breakdown sampled

SectorNames == {"Technology", "Healthcare", "Energy", "Unknown"}
PctSamples == {10, 59, 60, 61, 100}

\* the breakdowns sector_breakdown can return: distinct sectors,
\* percentages non-increasing; the empty one included
Breakdowns ==
    UNION { { b \in [1..n -> SectorNames \X PctSamples] :
                /\ \A i, j \in 1..n : i # j => b[i][1] # b[j][1]
                /\ \A i \in 1..(n - 1) : b[i][2] >= b[i + 1][2] } : n \in 0..MaxSectors }

\* volatilities in hundredths, and NaN
VolSamples == {NaN} \cup { Hundredths(c) : c \in {0, 19, 20, 21, 39, 40, 41, 95} }

InitClassify ==
    /\ stocks = <<>>
    /\ upInfo = DefaultInfo
    /\ upHist = DefaultHist
    /\ news = NoNews
    /\ op = "init"
    /\ arg \in [sectors : Breakdowns, pvol : VolSamples]
    /\ ret = NoRet
    /\ io = NoIo

\* the flags, the label and the risk classification of ai_portfolio_insight
ClassifyInEngine ==
    /\ op' = "classify"
    /\ ret' = [kind |-> "classification",
               top_sector |-> TopSector(arg.sectors),
               concentration_flag |-> ConcentrationFlag(TopSector(arg.sectors)),
               diversification |-> DiversificationScore(arg.sectors),
               risk |-> RiskClassification(arg.pvol, DiversificationScore(arg.sectors))]
    /\ UNCHANGED <<stocks, upInfo, upHist, news, arg, io>>

\* the label of the dashboard
LabelInDisplay ==
    /\ op' = "compute_diversification_text"
    /\ ret' = [kind |-> "label", val |-> compute_diversification_text(arg.sectors)]
    /\ UNCHANGED <<stocks, upInfo, upHist, news, arg, io>>

NextClassify == ClassifyInEngine \/ LabelInDisplay

SpecClassify == InitClassify /\ [][NextClassify]_vars

----------------------------------------------------------------------------
(* The News Gateway taken alone: lookups against every sampled environment  *)

Queries == { <<"A">>, <<"A", " ", "B">>, <<>> }
PageSizes == {1, 5}             \* page_size=5 by default

FullArticle ==
    [title |-> "Title", source |-> [id |-> "wire", name |-> "Wire"],
     publishedAt |-> "2024-01-01", url |-> "https://example", description |-> "Text"]
\* an article with a nameless source and no description
BareArticle == [title |-> "Title", source |-> [id |-> "wire"], url |-> "https://example"]
\* an article without the source member
UnsourcedArticle == [title |-> "Other", publishedAt |-> "2024-01-02"]

ArticleSamples == {FullArticle, BareArticle, UnsourcedArticle}

Bodies ==
    {NotJson, Json(FALSE, <<>>)}
        \cup { Json(TRUE, as) : as \in UNION { [1..n -> ArticleSamples] : n \in 0..MaxArticles } }

Statuses == {200, 404, 500}

NewsEnvs ==
    { News(k, r) : k \in BOOLEAN,
                   r \in {NetworkError} \cup { Reply(st, b) : st \in Statuses, b \in Bodies } }

InitNews ==
    /\ stocks = <<>>
    /\ upInfo = DefaultInfo
    /\ upHist = DefaultHist
    /\ news \in NewsEnvs
    /\ op = "init"
    /\ arg = NoArg
    /\ ret = NoRet
    /\ io = NoIo

GetLatestNews(query, page_size) ==
    /\ op' = "get_latest_news"
    /\ arg' = [query |-> query, page_size |-> page_size]
    /\ ret' = get_latest_news(query, page_size, news)
    /\ io' = get_latest_news_io(query, page_size, news)
    /\ UNCHANGED <<stocks, upInfo, upHist, news>>

NextNews == \E query \in Queries, page_size \in PageSizes : GetLatestNews(query, page_size)

SpecNews == InitNews /\ [][NextNews]_vars

----------------------------------------------------------------------------
(* Properties                                                               *)

Sorted(bd) == \A i \in 1..(Len(bd) - 1) : bd[i][2] >= bd[i + 1][2]
PctSum(bd) == SumSeq([i \in 1..Len(bd) |-> bd[i][2]])

\* every profile fetch of the Portfolio yields a sector
AllSectorsKnown ==
    \A i \in 1..Len(stocks) : ~upInfo[stocks[i][1]].raises /\ "sector" \in upInfo[stocks[i][1]].keys

\* C1: for a Portfolio with at least one holding whose profile fetches all
\* yield a sector, the percentages returned by sector_breakdown sum to 100
\* and are sorted non-increasing
C1_SumsTo100AndSorted ==
    (op = "sector_breakdown" /\ stocks # <<>> /\ AllSectorsKnown)
        => (PctSum(ret.val) = 100 /\ Sorted(ret.val))

\* a key is a non-empty, stripped, uppercase ticker
NormalKey(k) ==
    /\ k # <<>>
    /\ k[1] # Space /\ k[Len(k)] # Space
    /\ \A i \in 1..Len(k) : k[i] \notin {"a", "b", "c"}

KeysNormalAndUnique(st) ==
    /\ \A i \in 1..Len(st) : NormalKey(st[i][1])
    /\ \A i, j \in 1..Len(st) : i # j => st[i][1] # st[j][1]

\* C2: after every add_stock and remove_stock the keys of the store are
\* non-empty, stripped, uppercase and pairwise different, and add_stock of a
\* ticker that is present after upper-casing and stripping answers
\* "already exists" and leaves the store, stored weight included, unchanged
C2_KeysNormalizedAddIdempotent ==
    [][ /\ KeysNormalAndUnique(stocks')
        /\ (op' = "add_stock" /\ \E i \in 1..Len(stocks) : stocks[i][1] = Strip(Upper(arg'.ticker)))
              => (ret'.text = "already exists." /\ stocks' = stocks) ]_vars

\* add_stock("a") then add_stock("A"): one holding, second call "already exists"
C2_Witness ==
    /\ op = "add_stock"
    /\ arg.ticker = <<"A">>
    /\ ret.text = "already exists."
    /\ Len(stocks) = 1 /\ stocks[1][1] = <<"A">>


\* C3: on an empty Portfolio every engine operation returns its designated
\* empty result and makes no profile fetch, price fetch or generator call
C3_EmptyShortCircuits ==
    stocks = <<>> =>
        /\ op \in {"analyze_risk", "generate_report"} => (ret = ErrorMarker /\ io = NoIo)
        /\ op = "ai_portfolio_insight" =>
              (ret.kind = "text" /\ ret.source = "local" /\ ret.text = EmptyMessage.text
               /\ io = NoIo)
        /\ op = "sector_breakdown" => (ret.val = <<>> /\ io = NoIo)
        /\ op = "ticker_volatilities" => (ret.val = <<>> /\ io = NoIo)
        /\ op = "portfolio_volatility" => (ret.val = NaN /\ io = NoIo)

C3_Witness == stocks = <<>> /\ op = "analyze_risk" /\ ret = ErrorMarker /\ io = NoIo

\* some weight of the request is not strictly positive
SomeWeightNotPositive(req) == \E i \in 1..Len(req) : req[i][2] <= 0
\* the weights of the request do not sum to 1.0 within 1e-6
SumNotOne(req) == Abs(SumSeq([i \in 1..Len(req) |-> req[i][2]]) - 100) * 10000 > 1

\* C4: the API layer rejects, before any Portfolio is built or any engine
\* operation is called, every request whose weights are not all strictly
\* positive or do not sum to 1.0 within 1e-6
C4_ApiRejectsBadWeights ==
    (op \in ApiOps /\ (SomeWeightNotPositive(arg.portfolio) \/ SumNotOne(arg.portfolio)))
        => (ret.status = 422 /\ stocks = <<>> /\ io = NoIo)

\* the fields of the holdings that are not narrative
Facts(holdings) ==
    [i \in 1..Len(holdings) |->
        <<holdings[i][1], holdings[i][2].name, holdings[i][2].sector,
          holdings[i][2].marketCap, holdings[i][2].forwardPE>>]

\* C5: when the generator fails on every call, ai_portfolio_insight on a
\* non-empty Portfolio returns the fixed unavailability string and raises
\* nothing, and generate_report returns a Report whose sectors, volatility
\* and holdings facts are those of a working generator; only the per-ticker
\* summaries and ai_summary degrade to the fixed string
C5_GeneratorFailureIsolated ==
    /\ (op = "ai_portfolio_insight" /\ stocks # <<>> /\ ~arg.up)
          => (ret.kind = "text" /\ ret.source = "fallback" /\ ret.text = Unavailable.text)
    /\ (op = "generate_report" /\ stocks # <<>> /\ ~arg.up)
          => /\ ret.kind = "report"
             /\ LET good == generate_report(stocks, upInfo, upHist, TRUE, arg.audience) IN
                /\ ret.sectors = good.sectors
                /\ ret.portfolio_volatility = good.portfolio_volatility
                /\ Facts(ret.holdings) = Facts(good.holdings)
             /\ ret.ai_summary.source = "fallback"
             /\ \A i \in 1..Len(ret.holdings) : ret.holdings[i][2].summary.source = "fallback"

C5_Witness ==
    /\ op = "generate_report" /\ Len(stocks) = 2 /\ ~arg.up
    /\ ret.kind = "report" /\ ret.ai_summary.source = "fallback"
    /\ ~IsNaN(ret.portfolio_volatility)

\* the provider's frame of a holding yields at least one return row
YieldsReturns(t) ==
    /\ ~upHist[t].raises
    /\ upHist[t].hasClose
    /\ Len(upHist[t].bars) >= 2

RECURSIVE Survivors(_)
Survivors(st) ==
    IF st = <<>> THEN <<>>
    ELSE IF YieldsReturns(Head(st)[1]) THEN <<Head(st)>> \o Survivors(Tail(st))
    ELSE Survivors(Tail(st))

\* C6: in portfolio_volatility a holding whose price data is unavailable or
\* yields no return row (empty series, no close field, too few bars) is
\* excluded and carries no weight: the result is the volatility of the
\* holdings that yield returns, with the weights normalised over them
C6_DataFailureIsolated ==
    (op = "portfolio_volatility" /\ stocks # <<>>)
        => ret.val = portfolio_volatility(Survivors(stocks), upHist)

\* top is the first and largest entry of bd, flag says it is >= 60
TopAndFlagOk(bd, top, flag) ==
    /\ top = IF bd = <<>> THEN <<"Unknown", 0>> ELSE bd[1]
    /\ \A i \in 1..Len(bd) : bd[i][2] <= top[2]
    /\ flag <=> (top[2] >= 60)

\* the Portfolio {A: 0.5, B: 0.5}, both holdings in Technology
HalfHalfTechnology ==
    /\ stocks = << <<A, 50>>, <<B, 50>> >>
    /\ SectorOf(FetchInfo(upInfo, A)) = "Technology"
    /\ SectorOf(FetchInfo(upInfo, B)) = "Technology"

\* C7: in analyze_risk and in ai_portfolio_insight, top_sector is the first,
\* largest entry of the sector breakdown (("Unknown", 0) when it is empty)
\* and the concentration flag is true iff its percentage is >= 60; for
\* {A: 0.5, B: 0.5}, both in Technology, the top sector is
\* ("Technology", 100) and the flag is true
C7_TopSectorAndFlag ==
    /\ (op = "analyze_risk" /\ stocks # <<>>)
          => /\ TopAndFlagOk(sector_breakdown(stocks, upInfo), ret.top_sector, ret.flagged)
             /\ HalfHalfTechnology => (ret.top_sector = <<"Technology", 100>> /\ ret.flagged)
    /\ (op = "ai_portfolio_insight" /\ stocks # <<>> /\ io.prompts # <<>>)
          => LET prompt == io.prompts[Len(io.prompts)] IN
             /\ prompt.sectors = sector_breakdown(stocks, upInfo)
             /\ TopAndFlagOk(prompt.sectors, prompt.top_sector, prompt.concentration_flag)
             /\ HalfHalfTechnology
                   => (prompt.sectors = << <<"Technology", 100>> >> /\ prompt.concentration_flag)

C7_Witness ==
    /\ op = "analyze_risk" /\ HalfHalfTechnology
    /\ ret.top_sector = <<"Technology", 100>> /\ ret.flagged

\* the label the rule gives a non-empty breakdown
RuleLabel(bd) ==
    IF bd[1][2] >= 60 THEN "Poor" ELSE IF Len(bd) < 3 THEN "Moderate" ELSE "Good"

BaseScore(v) == IF Gt(v, 40) THEN 80 ELSE IF Gt(v, 20) THEN 50 ELSE 20
BaseLevel(v) == IF Gt(v, 40) THEN "High" ELSE IF Gt(v, 20) THEN "Moderate" ELSE "Low"
Severity(level) == CASE level = "Low" -> 1 [] level = "Moderate" -> 2 [] level = "High" -> 3

\* C9: for a volatility that is a number, the score does not decrease from
\* Good to Moderate to Poor, never exceeds 100, and the level is never less
\* severe than the volatility baseline: "Poor" adds 20 and forces "High",
\* "Moderate" adds 10 and keeps the level; for NaN the level is "Unknown"
\* and the score is "N/A" whatever the diversification
C9_RiskMonotone ==
    LET good == RiskClassification(arg.pvol, "Good")
        moderate == RiskClassification(arg.pvol, "Moderate")
        poor == RiskClassification(arg.pvol, "Poor")
    IN /\ IF IsNaN(arg.pvol)
          THEN \A r \in {good, moderate, poor} : r.level = "Unknown" /\ ~r.numeric
          ELSE /\ \A r \in {good, moderate, poor} :
                    r.numeric /\ r.score <= 100
                    /\ Severity(r.level) >= Severity(BaseLevel(arg.pvol))
               /\ good.score <= moderate.score /\ moderate.score <= poor.score
               /\ good.score = BaseScore(arg.pvol) /\ good.level = BaseLevel(arg.pvol)
               /\ moderate.score = BaseScore(arg.pvol) + 10
               /\ moderate.level = BaseLevel(arg.pvol)
               /\ poor.score = BaseScore(arg.pvol) + 20 /\ poor.level = "High"
       /\ op = "classify" => ret.risk = RiskClassification(arg.pvol, ret.diversification)

C9_Witness ==
    /\ op = "classify" /\ ret.diversification = "Poor"
    /\ arg.pvol = Hundredths(20)
    /\ ret.risk = [level |-> "High", numeric |-> TRUE, score |-> 40]

\* the holding's frame is not empty and has a close field
DataBearing(t) == ~upHist[t].raises /\ upHist[t].bars # <<>> /\ upHist[t].hasClose
\* the dates on which the holding has a return: every bar but the first
ReturnDates(t) == { upHist[t].bars[i][1] : i \in 2..Len(upHist[t].bars) }

DataBearingHoldings == { i \in 1..Len(stocks) : DataBearing(stocks[i][1]) }
CommonReturnDates ==
    { d \in UNION { ReturnDates(stocks[i][1]) : i \in DataBearingHoldings } :
        \A i \in DataBearingHoldings : d \in ReturnDates(stocks[i][1]) }

\* C10: portfolio_volatility returns NaN, and does not raise, whenever no
\* date is a return date of every data-bearing holding, and whenever no
\* holding yields a return row
C10_NoCommonDatesIsNaN ==
    (op = "portfolio_volatility" /\ CommonReturnDates = {})
        => (ret.kind = "vol" /\ ret.val = NaN)

\* two holdings with returns, on no common date
C10_Witness ==
    /\ op = "portfolio_volatility"
    /\ Cardinality(DataBearingHoldings) = 2
    /\ \A i \in DataBearingHoldings : ReturnDates(stocks[i][1]) # {}
    /\ CommonReturnDates = {}
    /\ ret.val = NaN

\* the upstream request fails: no response, or a response that is not a
\* success
UpstreamFails(reply) ==
    \/ reply.kind = "network_error"
    \/ reply.kind = "response" /\ RaiseForStatus(reply.status)

\* C11: get_latest_news never lets an exception reach its caller, and it
\* returns the empty sequence when no credential is configured and when the
\* upstream request fails (network error or non-success HTTP status)
C11_NewsFailureAbsorbed ==
    op = "get_latest_news"
        => /\ ret.kind # "raised"
           /\ (~news.key \/ UpstreamFails(news.reply)) => ret = [kind |-> "news", val |-> <<>>]

\* the position of the first holding whose profile gives the sector
FirstAppearance(st, info, sector) ==
    CHOOSE i \in 1..Len(st) :
        /\ SectorOf(FetchInfo(info, st[i][1])) = sector
        /\ \A j \in 1..(i - 1) : SectorOf(FetchInfo(info, st[j][1])) # sector

\* entries of equal percentage stand in the order their sectors first appear
TiesInFirstAppearance(bd, st, info) ==
    \A i, j \in 1..Len(bd) :
        (i < j /\ bd[i][2] = bd[j][2])
            => FirstAppearance(st, info, bd[i][1]) < FirstAppearance(st, info, bd[j][1])

\* C12: sector_breakdown leaves the Portfolio store unchanged; called again
\* right after itself, with the Portfolio and the upstream profiles
\* unchanged, it returns the identical sequence; and entries with equal
\* percentages are kept in the order of first appearance of their sectors
C12_SectorBreakdownIdempotent ==
    [][ op' = "sector_breakdown"
          => /\ stocks' = stocks
             /\ (op = "sector_breakdown" /\ upInfo' = upInfo) => ret' = ret
             /\ TiesInFirstAppearance(ret'.val, stocks', upInfo') ]_vars

\* a breakdown with a tie that first appearance decides: B (Healthcare) was
\* added before C (Energy) with the same weight
C12_Witness ==
    /\ op = "sector_breakdown"
    /\ Len(ret.val) >= 2
    /\ ret.val[1][2] = ret.val[2][2]
    /\ ret.val[1][1] = "Healthcare"
    /\ ret.val[2][1] = "Energy"

\* the prompts of the kind among ps, in order
PromptsOf(ps, what) == SelectSeq(ps, LAMBDA q : q.what = what)

\* C13: one generate_report on a Portfolio with N >= 1 holdings calls the
\* Narrative Generator exactly N + 1 times: one blurb for each ticker and
\* one portfolio-level insight
C13_ReportAsksGeneratorNPlus1 ==
    (op = "generate_report" /\ stocks # <<>>)
        => /\ Len(io.prompts) = Len(stocks) + 1
           /\ \A i \in 1..Len(stocks) :
                 Len(SelectSeq(io.prompts, LAMBDA q : q = BlurbPrompt(stocks[i][1]))) = 1
           /\ Len(PromptsOf(io.prompts, "insight")) = 1

\* the price series is empty (the fetch failed or gave no rows), has no
\* Close column, or has fewer than 2 bars
NoUsableSeries(h) == h.raises \/ h.bars = <<>> \/ ~h.hasClose \/ Len(h.bars) < 2

\* v is a number and v >= 0.40, on the exact square: v^2 >= 4/25
ValidAndHigh(v) == ~v.nan /\ v.num * 25 >= 4 * v.den

\* C14: for a non-empty Portfolio the ticker_volatilities of analyze_risk
\* has exactly one entry per holding; a holding whose price series is
\* empty, lacks the close field or has fewer than 2 bars maps to NaN; and
\* high_vol_stocks lists exactly the holdings whose volatility is a valid
\* number >= 0.40, so never a holding whose volatility is NaN
C14_VolMapAndHighVol ==
    (op = "analyze_risk" /\ stocks # <<>>)
        => LET vols == ret.ticker_volatilities
               high == ret.high_vol_stocks
           IN /\ Len(vols) = Len(stocks)
              /\ \A i \in 1..Len(stocks) :
                    /\ vols[i][1] = stocks[i][1]
                    /\ NoUsableSeries(upHist[stocks[i][1]]) => IsNaN(vols[i][2])
                    /\ (\E k \in 1..Len(high) : high[k] = stocks[i][1])
                          <=> ValidAndHigh(vols[i][2])
              /\ \A k \in 1..Len(high) : high[k] \in Keys(stocks)
              /\ \A k, l \in 1..Len(high) : k # l => high[k] # high[l]

\* three holdings: A is listed, B has a single bar and maps to NaN, C has a
\* valid volatility below 0.40
C14_Witness ==
    /\ op = "analyze_risk"
    /\ Keys(stocks) = {A, B, C}
    /\ upHist[B] = OneBarHistory
    /\ ret.high_vol_stocks = <<A>>
    /\ \E i \in 1..3 : ret.ticker_volatilities[i] = <<B, NaN>>
    /\ \E i \in 1..3 : ret.ticker_volatilities[i] = <<C, Vol(0, 1)>>

====
